---- MODULE Spec2Model ----
(***************************************************************************)
(* A model of the Riverside Town simulation: the World (locations,         *)
(* occupant lists, clock, world_events table), the characters              *)
(* (BaseCharacter, DeepSeaResearcher, ERSurgeon, NPC), the personality     *)
(* profile and its generator, and the NPCManager's population factory.    *)
(*                                                                         *)
(* Handlers are operators on a program-state record s = [world, chars,     *)
(* events, now]; a handler that draws random numbers returns the set of    *)
(* states it can produce, so that a handler calling other handlers is     *)
(* modelled whole, as one action.                                          *)
(***************************************************************************)
EXTENDS Integers, Sequences, FiniteSets, TLC

VARIABLES
    world,        \* the World object: time, occupants per location, ai_characters, npcs
    chars,        \* the character objects, by name
    events,       \* the world_events table, in insertion order
    now,          \* the wall clock read by datetime.now()
    manager,      \* the NPCManager object: npcs, npc_database
    create,       \* the create_npcs call in progress, or its return value
    gen,          \* the personality generator or constructor in progress, or its result
    sim,          \* the simulation step: not yet run, or how far it has run
    choose,       \* the choose_action call: its arguments and what it computed
    dominant,     \* the get_dominant_traits call: its arguments and what it returned
    ollama,       \* the OllamaClient object: conversation_history, and its last reply
    steps,        \* number of operations performed so far
    limit,        \* number of operations this run explores
    lastOp        \* the last operation performed, with its arguments

vars == <<world, chars, events, now, manager, create, gen, sim, choose, dominant, ollama,
          steps, limit, lastOp>>

----------------------------------------------------------------------------
(* Bounds of the exploration. *)

MaxSteps == 3

\* calls of create_npcs on one manager
MaxCalls == 2

\* choose_action calls on one character
MaxChoices == 2

\* operations a caller performs on the world around one simulate_step
MaxLogSteps == 1

\* the background agents World.simulate_step lets act: npcs[:10] in the source,
\* cut down with the population of the model
HeadCount == 1

\* the sample size main.py hands to simulate_npc_interactions: 50 in the source,
\* cut down with the population of the model
ActiveNpcs == 1

\* operations explored from a character whose memory is nearly full
MaxMemSteps == 1

\* operations explored from characters whose energy was drained
MaxEnergySteps == 2

----------------------------------------------------------------------------
(* Sequence helpers (Python list operations). *)

Range(seq) == {seq[i] : i \in 1..Len(seq)}

\* list.remove(x): drops the first occurrence of x.
RECURSIVE RemoveFirst(_, _)
RemoveFirst(seq, x) ==
    IF seq = <<>> THEN <<>>
    ELSE IF Head(seq) = x THEN Tail(seq)
    ELSE <<Head(seq)>> \o RemoveFirst(Tail(seq), x)

\* number of occurrences of x in seq
Count(seq, x) == Cardinality({i \in 1..Len(seq) : seq[i] = x})

----------------------------------------------------------------------------
(* The world's declared locations and the characters of the model. *)

LocationKeys == {"riverside", "hospital", "research_station", "town_center", "marina"}

\* importances handed to add_memory by a caller
ImportanceInputs == {1, 5, 60}

\* NPCManager.__init__
NPCManager == [npcs |-> <<>>, npc_database |-> <<>>]

\* OllamaClient.__init__, with no call made yet
OllamaClient == [conversation_history |-> <<>>, pc |-> "idle"]

\* hours handed to update_time by a caller
HoursInputs == {1, 2}

\* keys handed to move_character by a caller: declared ones and one that is not
MoveKeys == {"riverside", "hospital", "atlantis"}

Researcher == "Dr. Marina Depth"
Surgeon    == "Dr. Alex Healer"
Townsman   == "River Stone"

Chars == {Researcher, Surgeon, Townsman}

\* the job each character is constructed with
JobOf(c) ==
    CASE c = Researcher -> "Deep Sea Researcher"
      [] c = Surgeon    -> "ER Surgeon"
      [] OTHER          -> "fisherman"

\* BaseCharacter.__init__, with the fields the subclasses add or overwrite
BaseCharacter(job) ==
    [job |-> job, location |-> "town_center", mood |-> "neutral", energy |-> 100,
     current_activity |-> "idle", relationships |-> <<>>, memories |-> <<>>]

DeepSeaResearcher ==
    [job |-> "Deep Sea Researcher", location |-> "research_station", mood |-> "neutral",
     energy |-> 100, current_activity |-> "idle", relationships |-> <<>>,
     memories |-> <<>>, discoveries |-> <<>>, samples_collected |-> 0]

ERSurgeon ==
    [job |-> "ER Surgeon", location |-> "hospital", mood |-> "neutral",
     energy |-> 100, current_activity |-> "idle", relationships |-> <<>>,
     memories |-> <<>>, patients_treated |-> 0, surgeries_performed |-> 0,
     medical_cases |-> <<>>]

\* NPC._get_work_location
get_work_location(job) ==
    CASE job \in {"fisherman", "artist", "farmer", "gardener"} -> "riverside"
      [] job = "boat_captain" -> "marina"
      [] OTHER -> "town_center"

\* f"{h}:00": the text of a time of day, as the pair of the numbers it shows
OClock(h) == <<h, 0>>

\* NPC._generate_daily_routine, for the draws start_time and work_hours and the
\* place of the social hour, "none" when the routine has no social hour
generate_daily_routine(job, start_time, work_hours, social) ==
    <<[time |-> OClock(start_time), activity |-> "work",
       location |-> get_work_location(job)],
      [time |-> OClock(start_time + (work_hours \div 2)), activity |-> "lunch_break",
       location |-> "town_center"]>>
    \o (IF social = "none" THEN <<>>
        ELSE <<[time |-> OClock(start_time + work_hours + 1),
                activity |-> "social_time", location |-> social]>>)
    \o <<[time |-> OClock(start_time + work_hours + 3), activity |-> "personal_time",
          location |-> "home"]>>

\* NPC.__init__, with the routine drawn for start_time 6 and work_hours 6
NPC(job) ==
    [job |-> job, location |-> "town_center", mood |-> "neutral", energy |-> 100,
     current_activity |-> "idle", relationships |-> <<>>, memories |-> <<>>,
     daily_routine |-> generate_daily_routine(job, 6, 6, "riverside")]

NewCharacter(c) ==
    CASE c = Researcher -> DeepSeaResearcher
      [] c = Surgeon    -> ERSurgeon
      [] OTHER          -> NPC(JobOf(c))

\* World.__init__
World ==
    [time |-> 0,
     occupants |-> [k \in LocationKeys |-> <<>>],
     ai_characters |-> <<>>,
     npcs |-> <<>>]

State == [world |-> world, chars |-> chars, events |-> events, now |-> now]

----------------------------------------------------------------------------
(* World operations. *)

\* (mutant) the row takes the place of the last row of the table
log_event_replacing(s, event_type, location, participants) ==
    LET row == [timestamp |-> s.now + 1, event_type |-> event_type,
                location |-> location, participants |-> participants]
    IN [s EXCEPT !.now = s.now + 1,
                 !.events = IF s.events = <<>> THEN <<row>>
                            ELSE [s.events EXCEPT ![Len(s.events)] = row]]

\* World.log_event: one row appended, stamped with datetime.now(); participants
\* is the list of the names the caller's string gives
log_event(s, event_type, location, participants) ==
    [s EXCEPT !.now = s.now + 1,
              !.events = Append(s.events,
                  [timestamp |-> s.now + 1, event_type |-> event_type,
                   location |-> location, participants |-> participants])]

\* World.add_character
add_character(s, c) ==
    LET listed ==
            IF s.chars[c].job \in {"Deep Sea Researcher", "ER Surgeon"}
            THEN [s EXCEPT !.world.ai_characters = Append(@, c)]
            ELSE [s EXCEPT !.world.npcs = Append(@, c)]
    IN log_event(listed, "character_added", "town_center", <<c>>)

\* (mutant) the loop leaves the old occupant lists alone
RemoveFromNone(occ, c) == occ

\* the loop of move_character that takes the character out of the occupant lists
RemoveFromAll(occ, c) ==
    [k \in LocationKeys |-> IF c \in Range(occ[k]) THEN RemoveFirst(occ[k], c) ELSE occ[k]]

\* (mutant) move_character without its test of the key
move_character_unchecked(s, c, location_key) ==
    LET removed == RemoveFromAll(s.world.occupants, c)
        moved   == [s EXCEPT !.world.occupants = removed,
                             !.chars[c].location = location_key]
    IN log_event(moved, "character_movement", location_key, <<c>>)

\* World.move_character
move_character(s, c, location_key) ==
    IF location_key \in LocationKeys
    THEN LET removed == RemoveFromAll(s.world.occupants, c)
             placed  == [removed EXCEPT ![location_key] = Append(@, c)]
             moved   == [s EXCEPT !.world.occupants = placed,
                                  !.chars[c].location = location_key]
         IN log_event(moved, "character_movement", location_key, <<c>>)
    ELSE s

\* World.update_time
update_time(s, hours) ==
    log_event([s EXCEPT !.world.time = @ + hours], "time_update", "global", <<>>)

----------------------------------------------------------------------------
(* Character operations (BaseCharacter). *)

MemoryCapacity == 50

\* random.randint(a, b): the model explores the two extreme draws
randint(a, b) == {a, b}

\* the entries of seq whose importance lies in lo..hi, those of higher importance
\* first, those of one importance in the order they have in seq
RECURSIVE ByImportance(_, _, _)
ByImportance(seq, lo, hi) ==
    IF lo = hi THEN SelectSeq(seq, LAMBDA e : e.importance = lo)
    ELSE LET mid == (lo + hi) \div 2
         IN ByImportance(seq, mid + 1, hi) \o ByImportance(seq, lo, mid)

\* sorted(memories, key=lambda x: x["importance"], reverse=True): a stable sort
SortByImportance(seq) ==
    IF seq = <<>> THEN <<>>
    ELSE LET keys == {seq[i].importance : i \in 1..Len(seq)}
         IN ByImportance(seq, CHOOSE v \in keys : \A w \in keys : v <= w,
                              CHOOSE v \in keys : \A w \in keys : v >= w)

\* (mutant) the sorted list is not cut
RememberUncut(memories, e) ==
    LET appended == Append(memories, e)
    IN IF Len(appended) > MemoryCapacity THEN SortByImportance(appended) ELSE appended

\* (mutant) a full list drops its oldest entry
RememberRecent(memories, e) ==
    LET appended == Append(memories, e)
    IN IF Len(appended) > MemoryCapacity THEN Tail(appended) ELSE appended

\* the memory list after BaseCharacter.add_memory appended entry e
Remember(memories, e) ==
    LET appended == Append(memories, e)
    IN IF Len(appended) > MemoryCapacity
       THEN SubSeq(SortByImportance(appended), 1, MemoryCapacity)
       ELSE appended

\* BaseCharacter.add_memory
add_memory(s, c, memory, importance) ==
    [s EXCEPT !.now = s.now + 1,
              !.chars[c].memories =
                  Remember(@, [content |-> memory, timestamp |-> s.now + 1,
                               importance |-> importance])]

\* (mutant) the relationship is entered on both sides
add_relationship_mutual(s, c, character_name, relationship_type, strength) ==
    LET entry == [type |-> relationship_type, strength |-> strength,
                  created |-> s.now + 1]
        Entered(old, n) == [m \in (DOMAIN old) \cup {n} |-> IF m = n THEN entry ELSE old[m]]
    IN [s EXCEPT !.now = s.now + 1,
                 !.chars[c].relationships = Entered(@, character_name),
                 !.chars[character_name].relationships = Entered(@, c)]

\* BaseCharacter.add_relationship
add_relationship(s, c, character_name, relationship_type, strength) ==
    LET old == s.chars[c].relationships
        entry == [type |-> relationship_type, strength |-> strength,
                  created |-> s.now + 1]
    IN [s EXCEPT !.now = s.now + 1,
                 !.chars[c].relationships =
                     [n \in (DOMAIN old) \cup {character_name} |->
                         IF n = character_name THEN entry ELSE old[n]]]

\* BaseCharacter.update_mood
update_mood(s, c, mood) ==
    add_memory([s EXCEPT !.chars[c].mood = mood], c, "mood_changed", 3)

\* BaseCharacter.set_activity
set_activity(s, c, activity) == [s EXCEPT !.chars[c].current_activity = activity]

\* (mutant) resting without the cap
RestedUncapped(energy) == energy + 20

\* the rest branch of execute_action: energy restored, capped at 100
Rested(energy) == IF energy + 20 < 100 THEN energy + 20 ELSE 100

\* (mutant) the cost of acting taken twice
TiredTwice(energy) == IF energy - 10 > 0 THEN energy - 10 ELSE 0

\* the last statement of execute_action: the cost of acting, floored at 0
Tired(energy) == IF energy - 5 > 0 THEN energy - 5 ELSE 0

\* (mutant) the occupants of c's own location, c among them
AllOccupants(s, c) == Range(s.world.occupants[s.chars[c].location])

\* the occupants of c's own location other than c (socialize, chat_with_neighbors)
OtherOccupants(s, c) ==
    LET occ == s.world.occupants[s.chars[c].location]
    IN {occ[i] : i \in {j \in 1..Len(occ) : occ[j] # c}}

\* the action-specific branch of BaseCharacter.execute_action
BaseEffect(s, c, action) ==
    CASE action = "rest" ->
           {add_memory([s EXCEPT !.chars[c].energy = Rested(@)], c, "rested", 2)}
      [] action = "explore" ->
           {add_memory(move_character(s, c, new_location), c, "explored", 4) :
               new_location \in LocationKeys \ {s.chars[c].location}}
      [] action = "socialize" ->
           IF Len(s.world.occupants[s.chars[c].location]) > 1
                 /\ OtherOccupants(s, c) # {}
           THEN {LET met == add_memory(s, c, "socialized", 5)
                 IN IF partner \notin DOMAIN s.chars[c].relationships
                    THEN add_relationship(met, c, partner, "acquaintance", 30)
                    ELSE met : partner \in OtherOccupants(s, c)}
           ELSE {s}
      [] OTHER -> {s}

\* BaseCharacter.execute_action
BaseCharacter_execute_action(s, c, action) ==
    {[t EXCEPT !.chars[c].energy = Tired(@)] :
        t \in BaseEffect(set_activity(s, c, action), c, action)}

----------------------------------------------------------------------------
(* Role-specific execute_action (each calls the base one first). *)

Strains == {"algae", "microorganism"}
SurgeryTypes == {"appendectomy", "emergency_surgery"}
Complexities == {"routine", "critical"}

\* (mutant) analyze_specimens without its test of samples_collected
ResearcherEffectUnguarded(s, c, action) ==
    IF action = "analyze_specimens"
    THEN {s} \cup
         {log_event(add_memory([s EXCEPT !.chars[c].discoveries = Append(@, d)],
                               c, "discovery", 9),
                    "scientific_discovery", s.chars[c].location, <<c>>) :
             d \in Strains}
    ELSE {s}

\* DeepSeaResearcher.execute_action, after super().execute_action
ResearcherEffect(s, c, action) ==
    CASE action = "collect_water_samples" ->
           {log_event(add_memory([s EXCEPT !.chars[c].samples_collected = @ + n],
                                 c, "collected_samples", 6),
                      "research_activity", s.chars[c].location, <<c>>) :
               n \in randint(1, 3)}
      [] action = "analyze_specimens" ->
           IF s.chars[c].samples_collected > 0
           THEN {s} \cup
                {log_event(add_memory([s EXCEPT !.chars[c].discoveries = Append(@, d)],
                                      c, "discovery", 9),
                           "scientific_discovery", s.chars[c].location, <<c>>) :
                    d \in Strains}
           ELSE {s}
      [] action = "dive_for_samples" ->
           IF s.chars[c].location = "riverside"
           THEN {log_event(add_memory([s EXCEPT !.chars[c].samples_collected = @ + n],
                                      c, "dove", 7),
                           "field_research", s.chars[c].location, <<c>>) :
                    n \in randint(2, 5)}
           ELSE {s}
      [] action = "document_findings" ->
           IF s.chars[c].discoveries # <<>>
           THEN {log_event(add_memory(s, c, "documented", 8),
                           "research_documentation", s.chars[c].location, <<c>>)}
           ELSE {s}
      [] OTHER -> {s}

DeepSeaResearcher_execute_action(s, c, action) ==
    UNION {ResearcherEffect(t, c, action) : t \in BaseCharacter_execute_action(s, c, action)}

\* ERSurgeon.execute_action, after super().execute_action
SurgeonEffect(s, c, action) ==
    CASE action = "examine_patients" ->
           {log_event(add_memory([s EXCEPT !.chars[c].patients_treated = @ + n],
                                 c, "examined", 6),
                      "medical_care", s.chars[c].location, <<c>>) :
               n \in randint(1, 4)}
      [] action = "perform_surgery" ->
           {log_event(add_memory(
                        [s EXCEPT !.chars[c].surgeries_performed = @ + 1,
                                  !.chars[c].medical_cases =
                                      Append(@, [type |-> ty, complexity |-> cx,
                                                 outcome |-> "successful"])],
                        c, "surgery", 9),
                      "medical_surgery", s.chars[c].location, <<c>>) :
               ty \in SurgeryTypes, cx \in Complexities}
      [] action = "train_medical_staff" ->
           {log_event(add_memory(s, c, "trained_staff", 7),
                      "medical_training", s.chars[c].location, <<c>>)}
      [] action = "emergency_response" ->
           {log_event(add_memory(s, c, "emergency", 8),
                      "emergency_response", s.chars[c].location, <<c>>)}
      [] OTHER -> {s}

ERSurgeon_execute_action(s, c, action) ==
    UNION {SurgeonEffect(t, c, action) : t \in BaseCharacter_execute_action(s, c, action)}

\* f"working as {self.job}", for the jobs of the model
working_as(job) ==
    CASE job = "fisherman" -> "working as fisherman"
      [] job = "librarian" -> "working as librarian"
      [] OTHER             -> "working as townsperson"

\* NPC.execute_action, after super().execute_action
NPCEffect(s, c, action) ==
    CASE action = "work_at_job" ->
           LET work_location == get_work_location(s.chars[c].job)
               atWork == IF s.chars[c].location # work_location
                         THEN move_character(s, c, work_location)
                         ELSE s
           IN {add_memory(set_activity(atWork, c, working_as(s.chars[c].job)),
                          c, "worked", 4)}
      [] action = "chat_with_neighbors" ->
           IF OtherOccupants(s, c) # {}
           THEN UNION {
                  LET met == add_memory(s, c, "chatted", 5)
                  IN IF chat_partner \notin DOMAIN s.chars[c].relationships
                     THEN {log_event(add_relationship(met, c, chat_partner, "neighbor", n),
                                     "social_interaction", s.chars[c].location,
                                     <<c, chat_partner>>) : n \in randint(40, 70)}
                     ELSE {log_event(met, "social_interaction", s.chars[c].location,
                                     <<c, chat_partner>>)} :
                  chat_partner \in OtherOccupants(s, c)}
           ELSE {s}
      [] action = "attend_community_event" ->
           {log_event(add_memory(s, c, "attended_event", 6),
                      "community_event", s.chars[c].location, <<c>>)}
      [] action \in {"cast_fishing_line", "paint_landscape", "tend_crops"} ->
           {log_event(add_memory(s, c, "practiced", 4),
                      "skill_development", s.chars[c].location, <<c>>)}
      [] OTHER -> {s}

NPC_execute_action(s, c, action) ==
    UNION {NPCEffect(t, c, action) : t \in BaseCharacter_execute_action(s, c, action)}

\* character.execute_action(action, world), dispatched on the character's class
execute_action(s, c, action) ==
    CASE c = Researcher -> DeepSeaResearcher_execute_action(s, c, action)
      [] c = Surgeon    -> ERSurgeon_execute_action(s, c, action)
      [] OTHER          -> NPC_execute_action(s, c, action)

\* the action labels the model hands to execute_action, per character
ActionLabels(c) ==
    {"rest", "explore", "socialize", "fish"} \cup
    (CASE c = Researcher -> {"collect_water_samples", "analyze_specimens",
                             "dive_for_samples", "document_findings"}
       [] c = Surgeon    -> {"examine_patients", "perform_surgery",
                             "train_medical_staff", "emergency_response"}
       [] OTHER          -> {"work_at_job", "chat_with_neighbors",
                             "attend_community_event", "cast_fishing_line"})

----------------------------------------------------------------------------
(* The specification of the world. *)

\* an operation of a caller, from outside a simulate_step in progress
Apply(s, op) ==
    /\ sim.pc # "stepping"
    /\ world' = s.world
    /\ chars' = s.chars
    /\ events' = s.events
    /\ now' = s.now
    /\ steps' = steps + 1
    /\ lastOp' = op
    /\ UNCHANGED <<limit, manager, create, gen, sim, choose, dominant, ollama>>

Added(c) == c \in Range(world.ai_characters) \/ c \in Range(world.npcs)

AddCharacter ==
    \E c \in Chars :
        /\ steps < limit
        /\ ~Added(c)
        /\ Apply(add_character(State, c), [op |-> "add_character", char |-> c])

MoveCharacter ==
    \E c \in Chars, k \in MoveKeys :
        /\ steps < limit
        /\ Apply(move_character(State, c, k),
                 [op |-> "move_character", char |-> c, key |-> k])

UpdateTime ==
    \E hours \in HoursInputs :
        /\ steps < limit
        /\ Apply(update_time(State, hours), [op |-> "update_time", hours |-> hours])

ExecuteAction ==
    \E c \in Chars : \E action \in ActionLabels(c) :
        /\ steps < limit
        /\ \E t \in execute_action(State, c, action) :
              Apply(t, [op |-> "execute_action", char |-> c, action |-> action])

\* a caller appending a memory directly (inject_experience, conversation storage)
AddMemory ==
    \E c \in Chars, importance \in ImportanceInputs :
        /\ steps < limit
        /\ Apply(add_memory(State, c, "experience", importance),
                 [op |-> "add_memory", char |-> c, content |-> "experience",
                  importance |-> importance])

UpdateMood ==
    \E c \in Chars :
        /\ steps < limit
        /\ Apply(update_mood(State, c, "happy"),
                 [op |-> "update_mood", char |-> c, content |-> "mood_changed",
                  importance |-> 3])

\* the other objects of the program, untouched by the world's operations
Idle ==
    /\ manager = NPCManager
    /\ create = [pc |-> "idle"]
    /\ gen = [pc |-> "idle"]
    /\ sim = [pc |-> "ready"]
    /\ choose = [pc |-> "idle"]
    /\ dominant = [pc |-> "idle"]
    /\ ollama = OllamaClient

\* the program state right after construction
Constructed ==
    [world |-> World, chars |-> [c \in Chars |-> NewCharacter(c)],
     events |-> <<>>, now |-> 0]

Starts(s, n) ==
    /\ world = s.world
    /\ chars = s.chars
    /\ events = s.events
    /\ now = s.now
    /\ steps = 0
    /\ limit = n
    /\ lastOp = [op |-> "init"]
    /\ Idle

Init == Starts(Constructed, MaxSteps)

Next ==
    \/ AddCharacter
    \/ MoveCharacter
    \/ UpdateTime
    \/ ExecuteAction

Spec == Init /\ [][Next]_vars

----------------------------------------------------------------------------
(* Memory: runs that start with memory lists one or no entry short of the  *)
(* capacity, filled by add_memory itself.                                  *)

\* importance of the k-th seeded memory
SeedImportance(pattern, k) ==
    CASE pattern = "increasing" -> k
      [] pattern = "constant"   -> 5
      [] OTHER                  -> 2 + (k % 8)

\* s after k calls of add_memory for c, none of which overflows the list
Seeded(s, c, k, pattern) ==
    [s EXCEPT !.now = s.now + k,
              !.chars[c].memories =
                  [i \in 1..k |-> [content |-> "seeded", timestamp |-> s.now + i,
                                   importance |-> SeedImportance(pattern, i)]]]

\* everybody added to the world and gathered at the riverside
Gathered ==
    LET a1 == add_character(Constructed, Researcher)
        a2 == add_character(a1, Surgeon)
        a3 == add_character(a2, Townsman)
        m1 == move_character(a3, Researcher, "riverside")
        m2 == move_character(m1, Surgeon, "riverside")
    IN move_character(m2, Townsman, "riverside")

\* every character with k seeded memories and then, with more = 1, one further
\* memory of importance 60, which a full list meets by sorting and cutting
SeededAll(pattern, k, more) ==
    LET s1 == Seeded(Seeded(Seeded(Gathered, Researcher, k, pattern),
                            Surgeon, k, pattern), Townsman, k, pattern)
    IN IF more = 0 THEN s1
       ELSE add_memory(add_memory(add_memory(s1, Researcher, "experience", 60),
                                  Surgeon, "experience", 60),
                       Townsman, "experience", 60)

MemInit ==
    \E pattern \in {"increasing", "constant", "cyclic"},
       k \in {MemoryCapacity - 1, MemoryCapacity}, more \in {0, 1} :
        Starts(SeededAll(pattern, k, more), MaxMemSteps)

MemNext ==
    \/ AddMemory
    \/ UpdateMood
    \/ ExecuteAction

MemSpec == MemInit /\ [][MemNext]_vars

----------------------------------------------------------------------------
(* Energy: runs that start after each character acted a number of times.   *)

\* s after c executed n actions that have no effect of their own ("fish")
Drained(s, c, n) ==
    IF n = 0 THEN s
    ELSE [s EXCEPT !.chars[c].current_activity = "fish",
                   !.chars[c].energy = IF 100 - 5 * n > 0 THEN 100 - 5 * n ELSE 0]

\* how often each character acted before the run: energy 100, 90, 5 and 0
DrainCounts == {0, 2, 19, 20}

EnergyInit ==
    \E n1 \in DrainCounts, n2 \in DrainCounts, n3 \in DrainCounts :
        Starts(Drained(Drained(Drained(Constructed, Researcher, n1), Surgeon, n2),
                       Townsman, n3),
               MaxEnergySteps)

EnergySpec == EnergyInit /\ [][Next]_vars

----------------------------------------------------------------------------
(* The personality profile: PersonalityTraits and the NPC's generator.     *)
(* A profile is the sequence of its ten trait values, in declaration       *)
(* order.                                                                  *)

TraitNames ==
    <<"curiosity", "empathy", "confidence", "creativity", "analytical",
      "social", "cautious", "ambitious", "humor", "adaptability">>

\* the total computed by PersonalityTraits.model_post_init
Total(t) == t[1] + t[2] + t[3] + t[4] + t[5] + t[6] + t[7] + t[8] + t[9] + t[10]

\* (mutant) PersonalityTraits without model_post_init
PersonalityTraitsUnsummed(values) ==
    IF \E i \in 1..Len(values) : values[i] < 0 \/ values[i] > 100
    THEN [ok |-> FALSE, error |-> "trait-range"]
    ELSE [ok |-> TRUE, profile |-> values]

\* PersonalityTraits(**values): the fields are validated (ge=0, le=100) first,
\* model_post_init runs only on validated fields
PersonalityTraits(values) ==
    IF \E i \in 1..Len(values) : values[i] < 0 \/ values[i] > 100
    THEN [ok |-> FALSE, error |-> "trait-range"]
    ELSE IF Total(values) # 100
         THEN [ok |-> FALSE, error |-> "trait-sum"]
         ELSE [ok |-> TRUE, profile |-> values]

\* (mutant) max_points without the remaining budget
MaxPointsUnbudgeted(remaining_points) == 30

\* max_points = min(remaining_points, 30)
MaxPoints(remaining_points) == IF remaining_points < 30 THEN remaining_points ELSE 30

\* random.randint(0, max_points): the draws the model explores
Draws(max_points) == {p \in 0..max_points : p \in {0, 7, max_points}}

\* trait values handed to the constructor by a caller
TraitValues == {-1, 0, 1, 50, 99, 100, 101}

\* profiles handed to the constructor by a caller
TraitInputs ==
    {<<a, b, 0, 0, 0, 0, 0, 0, 0, c>> : a \in TraitValues, b \in TraitValues, c \in TraitValues}

\* NPC._generate_random_personality: entry
GenerateStart ==
    /\ gen.pc = "idle"
    /\ gen' = [pc |-> "generating", i |-> 0, remaining_points |-> 100, traits |-> <<>>]
    /\ UNCHANGED <<world, chars, events, now, manager, create, sim, choose, dominant, ollama, steps, limit, lastOp>>

\* NPC._generate_random_personality: one of the first nine rounds of the loop
GenerateDraw ==
    /\ gen.pc = "generating"
    /\ gen.i # Len(TraitNames) - 1
    /\ \E points \in Draws(MaxPoints(gen.remaining_points)) :
          gen' = [gen EXCEPT !.i = @ + 1,
                             !.traits = Append(@, points),
                             !.remaining_points = @ - points]
    /\ UNCHANGED <<world, chars, events, now, manager, create, sim, choose, dominant, ollama, steps, limit, lastOp>>

\* NPC._generate_random_personality: the last round and the return
GenerateLast ==
    /\ gen.pc = "generating"
    /\ gen.i = Len(TraitNames) - 1
    /\ LET traits == Append(gen.traits, gen.remaining_points)
       IN gen' = [pc |-> "generated", traits |-> traits,
                  result |-> PersonalityTraits(traits)]
    /\ UNCHANGED <<world, chars, events, now, manager, create, sim, choose, dominant, ollama, steps, limit, lastOp>>

\* a caller constructing a profile
ConstructProfile ==
    /\ gen.pc = "idle"
    /\ \E values \in TraitInputs :
          gen' = [pc |-> "constructed", values |-> values,
                  result |-> PersonalityTraits(values)]
    /\ UNCHANGED <<world, chars, events, now, manager, create, sim, choose, dominant, ollama, steps, limit, lastOp>>

ProfileInit == Starts(Constructed, 0)

ProfileNext ==
    \/ GenerateStart
    \/ GenerateDraw
    \/ GenerateLast
    \/ ConstructProfile

ProfileSpec == ProfileInit /\ [][ProfileNext]_vars

----------------------------------------------------------------------------
(* The population factory: NPCManager.create_npcs, over a quota table and  *)
(* name pools cut down to a few entries. An NPC of the manager is the      *)
(* record of its name and job, with the number of its creation as id: two  *)
(* objects may bear one name.                                              *)

\* NPCManager._create_job_distribution (two of its rows)
JobDistribution == ("fisherman" :> 2) @@ ("librarian" :> 1)

Jobs == DOMAIN JobDistribution

RECURSIVE SumOver(_, _)
SumOver(f, S) ==
    IF S = {} THEN 0
    ELSE LET x == CHOOSE x \in S : TRUE IN f[x] + SumOver(f, S \ {x})

\* the length of jobs_to_create before the padding loop
QuotaTotal == SumOver(JobDistribution, Jobs)

\* NPCManager._create_name_pools (a few of its names)
first_names == <<"Sage", "River", "Rowan">>

last_names == <<"Stone">>

\* NPCManager.generate_random_name: the names it can return
generate_random_name ==
    {<<first_names[i], last_names[j]>> : i \in 1..Len(first_names), j \in 1..Len(last_names)}

\* counts handed to create_npcs by a caller
CountInputs == {1, QuotaTotal, QuotaTotal + 1}

\* (mutant) the padding loop runs while len(jobs_to_create) <= count
PaddingOneMore(count) == IF QuotaTotal <= count THEN count - QuotaTotal + 1 ELSE 0

\* the number of rounds of the padding loop: while len(jobs_to_create) < count
Padding(count) == IF QuotaTotal < count THEN count - QuotaTotal ELSE 0

\* the job counts of jobs_to_create after the padding loop
PaddedCounts(count) ==
    {[j \in Jobs |-> JobDistribution[j] + extra[j]] :
        extra \in {x \in [Jobs -> 0..Padding(count)] : SumOver(x, Jobs) = Padding(count)}}

\* jobs_to_create after random.shuffle and the cut to count entries
JobsToCreate(count) ==
    LET length == IF count < QuotaTotal + Padding(count) THEN count
                  ELSE QuotaTotal + Padding(count)
    IN {q \in [1..length -> Jobs] :
          \E padded \in PaddedCounts(count) : \A j \in Jobs : Count(q, j) <= padded[j]}

\* create_npcs up to the loop over jobs_to_create
CreateNpcsCall ==
    /\ create.pc \in {"idle", "returned"}
    /\ steps < limit
    /\ \E count \in CountInputs : \E jobs_to_create \in JobsToCreate(count) :
          /\ create' = [pc |-> "loop", count |-> count, jobs_to_create |-> jobs_to_create,
                        created_npcs |-> <<>>, used_names |-> {}]
          /\ lastOp' = [op |-> "create_npcs", count |-> count]
    /\ steps' = steps + 1
    /\ UNCHANGED <<world, chars, events, now, manager, gen, sim, choose, dominant, ollama, limit>>

\* one draw of a name in the loop: a used name is drawn again, a new one names
\* the next NPC
CreateNpcsDraw ==
    /\ create.pc = "loop"
    /\ Len(create.created_npcs) < Len(create.jobs_to_create)
    /\ \E name \in generate_random_name :
          IF name \in create.used_names
          THEN UNCHANGED <<create, manager, dominant, ollama>>
          ELSE LET npc == [id |-> Len(manager.npcs) + Len(create.created_npcs) + 1,
                           name |-> name,
                           job |-> create.jobs_to_create[Len(create.created_npcs) + 1]]
                   old == manager.npc_database
               IN /\ create' = [create EXCEPT !.used_names = @ \cup {name},
                                              !.created_npcs = Append(@, npc)]
                  /\ manager' = [manager EXCEPT !.npc_database =
                                    [n \in (DOMAIN old) \cup {name} |->
                                        IF n = name THEN npc ELSE old[n]]]
    /\ UNCHANGED <<world, chars, events, now, gen, sim, choose, dominant, ollama, steps, limit, lastOp>>

\* create_npcs after the loop: npcs.extend(created_npcs) and the return
CreateNpcsReturn ==
    /\ create.pc = "loop"
    /\ Len(create.created_npcs) = Len(create.jobs_to_create)
    /\ manager' = [manager EXCEPT !.npcs = @ \o create.created_npcs]
    /\ create' = [pc |-> "returned", count |-> create.count,
                  result |-> create.created_npcs]
    /\ UNCHANGED <<world, chars, events, now, gen, sim, choose, dominant, ollama, steps, limit, lastOp>>

PopInit == Starts(Constructed, MaxCalls)

PopNext ==
    \/ CreateNpcsCall
    \/ CreateNpcsDraw
    \/ CreateNpcsReturn

PopSpec == PopInit /\ [][PopNext]_vars

----------------------------------------------------------------------------
(* The simulation step: World.simulate_step and, after it in main.py's     *)
(* run_simulation_step, NPCManager.simulate_npc_interactions.              *)

Neighbor == "Sage Stone"

\* the characters of a populated world
Everyone == Chars \cup {Neighbor}

\* f"{first_name} {last_name}" in generate_random_name: the name a character
\* object goes by
FullName(name) ==
    CASE name = <<"River", "Stone">> -> Townsman
      [] name = <<"Sage", "Stone">>  -> Neighbor
      [] OTHER                       -> "Rowan Stone"

\* get_possible_actions of the character's class. Of the labels that no
\* execute_action knows (they set the activity and cost energy, nothing more)
\* each list keeps one or two.
get_possible_actions(s, c) ==
    LET location == s.chars[c].location
        job == s.chars[c].job
        base_actions ==
            {"rest", "explore", "socialize"}
            \cup (CASE job = "Deep Sea Researcher" -> {"research"}
                    [] job = "ER Surgeon"          -> {"emergency_response"}
                    [] OTHER                       -> {})
            \cup (CASE location = "riverside"        -> {"fish"}
                    [] location = "hospital"         -> {"visit_patients"}
                    [] location = "research_station" -> {"conduct_research"}
                    [] OTHER                         -> {})
    IN base_actions \cup
       (CASE c = Researcher ->
               {"collect_water_samples", "analyze_specimens", "document_findings"}
               \cup (IF location = "riverside" THEN {"dive_for_samples"} ELSE {})
          [] c = Surgeon ->
               {"examine_patients", "perform_surgery", "train_medical_staff"}
               \cup (IF location = "town_center" THEN {"emergency_response"} ELSE {})
          [] OTHER ->
               {"work_at_job", "chat_with_neighbors", "attend_community_event", "take_walk"}
               \cup (IF job = "fisherman" THEN {"cast_fishing_line"} ELSE {}))

\* BaseCharacter.take_action: choose_action can return every candidate
take_action(s, c) ==
    UNION {execute_action(s, c, action) : action \in get_possible_actions(s, c)}

\* npcs[:n]
Slice(list, n) == SubSeq(list, 1, IF n < Len(list) THEN n ELSE Len(list))

\* (mutant) the background agents are taken before the principals
StepQueueNpcsFirst(w) == Slice(w.npcs, HeadCount) \o w.ai_characters

\* the agents World.simulate_step lets act, in the order of its two loops
StepQueue(w) == w.ai_characters \o Slice(w.npcs, HeadCount)

\* int(routine_item["time"].split(":")[0])
routine_hour(routine_item) == routine_item.time[1]

\* (mutant) the loop has no break: the last entry of the hour has the last word
follow_routine_last(s, c, current_hour) ==
    LET routine == s.chars[c].daily_routine
        matching == {i \in 1..Len(routine) : routine_hour(routine[i]) = current_hour}
    IN IF matching = {} THEN s
       ELSE LET routine_item == routine[CHOOSE i \in matching : \A j \in matching : i >= j]
                target_location == routine_item.location
                moved == IF target_location # "home" /\ target_location \in LocationKeys
                         THEN move_character(s, c, target_location)
                         ELSE s
            IN set_activity(moved, c, routine_item.activity)

\* NPC.follow_routine
follow_routine(s, c, current_hour) ==
    LET routine == s.chars[c].daily_routine
        matching == {i \in 1..Len(routine) : routine_hour(routine[i]) = current_hour}
    IN IF matching = {} THEN s
       ELSE LET routine_item == routine[CHOOSE i \in matching : \A j \in matching : i <= j]
                target_location == routine_item.location
                moved == IF target_location # "home" /\ target_location \in LocationKeys
                         THEN move_character(s, c, target_location)
                         ELSE s
            IN set_activity(moved, c, routine_item.activity)

\* random.sample(npcs, min(active_npcs, len(npcs))): the lists it can return
ActiveGroups(npcs, active_npcs) ==
    LET k == IF active_npcs < Len(npcs) THEN active_npcs ELSE Len(npcs)
    IN {g \in [1..k -> Range(npcs)] : \A i, j \in 1..k : i # j => g[i] # g[j]}

\* for npc in active_group: if random.random() < 0.3: npc.take_action(world)
RECURSIVE SomeTakeAction(_, _)
SomeTakeAction(S, active_group) ==
    IF active_group = <<>> THEN S
    ELSE SomeTakeAction(S \cup UNION {take_action(t, Head(active_group)) : t \in S},
                        Tail(active_group))

\* for npc in active_group: if random.random() < 0.7: npc.follow_routine(...)
RECURSIVE SomeFollowRoutine(_, _, _)
SomeFollowRoutine(S, active_group, current_hour) ==
    IF active_group = <<>> THEN S
    ELSE SomeFollowRoutine(
             S \cup {follow_routine(t, Head(active_group), current_hour) : t \in S},
             Tail(active_group), current_hour)

\* world.time.hour, the clock counted in hours from a midnight
hour(time) == time % 24

\* NPCManager.simulate_npc_interactions, for the sample active_group
simulate_npc_interactions(s, active_group) ==
    SomeFollowRoutine(SomeTakeAction({s}, active_group), active_group,
                      hour(s.world.time))

\* the names of the manager's npcs, in the order of its list
ManagerNpcs == [i \in 1..Len(manager.npcs) |-> FullName(manager.npcs[i].name)]

\* hours of the day at which the world is constructed
StartHours == {5, 8}

\* the places distribute_npcs_to_world draws for an NPC (its preferred_locations)
Placements == {"riverside", "town_center"}

\* (mutant) every NPC is moved, wherever it is
distribute_npcs_anywhere(s, npcs, place) ==
    log_event(move_character(move_character(s, npcs[1], place[1]), npcs[2], place[2]),
              "population_distribution", "global", <<"NPCs">>)

\* NPCManager.distribute_npcs_to_world for a manager of two NPCs; place[i] is
\* the key handed to move_character for the i-th: the preferred location drawn,
\* which is a key of world.locations for every list _get_preferred_locations
\* returns, so that the random.choice(locations) of the else branch is not drawn
distribute_npcs_to_world(s, npcs, place) ==
    LET moved1 == IF s.chars[npcs[1]].location = "town_center"
                  THEN move_character(s, npcs[1], place[1]) ELSE s
        moved2 == IF moved1.chars[npcs[2]].location = "town_center"
                  THEN move_character(moved1, npcs[2], place[2]) ELSE moved1
    IN log_event(moved2, "population_distribution", "global", <<"NPCs">>)

\* main.py up to the first step: the world constructed at start_hour, the
\* principals added, the population created, added and distributed
Populated(start_hour, place) ==
    LET built == [world |-> [World EXCEPT !.time = start_hour],
                  chars |-> [c \in Everyone |-> NewCharacter(c)],
                  events |-> <<>>, now |-> 0]
        principals == add_character(add_character(built, Researcher), Surgeon)
        npcs == add_character(add_character(principals, Townsman), Neighbor)
    IN distribute_npcs_to_world(npcs, <<Townsman, Neighbor>>, place)

\* the manager after create_npcs(2) named the two NPCs
Staffed ==
    LET npc1 == [id |-> 1, name |-> <<"River", "Stone">>, job |-> JobOf(Townsman)]
        npc2 == [id |-> 2, name |-> <<"Sage", "Stone">>, job |-> JobOf(Neighbor)]
    IN [npcs |-> <<npc1, npc2>>,
        npc_database |-> (<<"River", "Stone">> :> npc1) @@ (<<"Sage", "Stone">> :> npc2)]

\* World.simulate_step up to its loops: update_time(1)
SimulateStep ==
    /\ sim.pc = "ready"
    /\ LET t == update_time(State, 1)
       IN /\ world' = t.world
          /\ chars' = t.chars
          /\ events' = t.events
          /\ now' = t.now
    /\ sim' = [pc |-> IF StepQueue(world) = <<>> THEN "stepped" ELSE "stepping",
               queue |-> StepQueue(world), start |-> Len(events),
               time |-> world.time, before |-> chars]
    /\ lastOp' = [op |-> "simulate_step"]
    /\ UNCHANGED <<manager, create, gen, choose, dominant, ollama, steps, limit>>

\* one round of the loops of World.simulate_step: character.take_action(self)
SimulateStepTakeAction ==
    /\ sim.pc = "stepping"
    /\ \E t \in take_action(State, Head(sim.queue)) :
          /\ world' = t.world
          /\ chars' = t.chars
          /\ events' = t.events
          /\ now' = t.now
    /\ sim' = [sim EXCEPT !.queue = Tail(@),
                          !.pc = IF Tail(sim.queue) = <<>> THEN "stepped" ELSE "stepping"]
    /\ UNCHANGED <<manager, create, gen, choose, dominant, ollama, steps, limit, lastOp>>

SimulateNpcInteractions ==
    /\ sim.pc = "stepped"
    /\ \E active_group \in ActiveGroups(ManagerNpcs, ActiveNpcs) :
          /\ \E t \in simulate_npc_interactions(State, active_group) :
                /\ world' = t.world
                /\ chars' = t.chars
                /\ events' = t.events
                /\ now' = t.now
          /\ sim' = [pc |-> "done", queue |-> <<>>, start |-> sim.start,
                     time |-> sim.time, before |-> sim.before,
                     active_group |-> active_group]
          /\ lastOp' = [op |-> "simulate_npc_interactions", active_npcs |-> ActiveNpcs]
    /\ UNCHANGED <<manager, create, gen, choose, dominant, ollama, steps, limit>>

SimInit ==
    \E start_hour \in StartHours, place \in [1..2 -> Placements] :
        LET s == Populated(start_hour, place)
        IN /\ world = s.world
           /\ chars = s.chars
           /\ events = s.events
           /\ now = s.now
           /\ manager = Staffed
           /\ create = [pc |-> "idle"]
           /\ gen = [pc |-> "idle"]
           /\ sim = [pc |-> "ready"]
           /\ choose = [pc |-> "idle"]
           /\ dominant = [pc |-> "idle"]
           /\ ollama = OllamaClient
           /\ steps = 0
           /\ limit = 0
           /\ lastOp = [op |-> "init"]

\* one World.simulate_step of a populated world
StepNext ==
    \/ SimulateStep
    \/ SimulateStepTakeAction

StepSpec == SimInit /\ [][StepNext]_vars

RunNext ==
    \/ SimulateStep
    \/ SimulateStepTakeAction
    \/ SimulateNpcInteractions

\* one run_simulation_step of a populated world
RunSpec == SimInit /\ [][RunNext]_vars

----------------------------------------------------------------------------
(* The world under its callers: the World operations in any order, with    *)
(* update_time handed any integer and log_event called directly, around    *)
(* one simulate_step.                                                      *)

\* hours handed to update_time by a caller that may hand it any integer
AnyHours == {-1, 0, 1, 24}

UpdateTimeAny ==
    \E hours \in AnyHours :
        /\ steps < limit
        /\ Apply(update_time(State, hours), [op |-> "update_time", hours |-> hours])

\* a caller logging an event of its own
LogEvent ==
    /\ steps < limit
    /\ Apply(log_event(State, "announcement", "town_center", <<>>), [op |-> "log_event"])

LogInit == \E s \in {Constructed, Gathered} : Starts(s, MaxLogSteps)

LogNext ==
    \/ AddCharacter
    \/ MoveCharacter
    \/ UpdateTimeAny
    \/ LogEvent
    \/ SimulateStep
    \/ SimulateStepTakeAction

LogSpec == LogInit /\ [][LogNext]_vars

----------------------------------------------------------------------------
(* BaseCharacter.choose_action. Weights are counted in hundredths: the     *)
(* source's 1 is 100 here, its trait factor 0.02 is 2, its floor 0.1 is    *)
(* 10. A personality is a profile, the sequence of the ten trait values.   *)

curiosity == 1
empathy == 2
analytical == 5
social == 6
adaptability == 10

\* (mutant) the rest bonus grows with every ten points of energy spent
RestBonusCoarse(energy) == ((100 - energy) \div 10) * 10

\* (100 - self.energy) * 0.01
RestBonus(energy) == (100 - energy) * 1

\* the weight choose_action gives one action: the body of its first loop
Weight(personality, energy, action) ==
    LET weight ==
            100 + (CASE action \in {"research", "analyze_data", "conduct_research"} ->
                          personality[curiosity] * 2 + personality[analytical] * 2
                     [] action \in {"socialize", "visit_patients"} ->
                          personality[social] * 2 + personality[empathy] * 2
                     [] action = "explore" ->
                          personality[curiosity] * 2 + personality[adaptability] * 2
                     [] action = "rest" -> RestBonus(energy)
                     [] OTHER -> 0)
    IN IF weight > 10 THEN weight ELSE 10

\* the keys of the dict trait_weights in iteration order: the candidates, each
\* at its first place in possible_actions
RECURSIVE Keys(_)
Keys(possible_actions) ==
    IF possible_actions = <<>> THEN <<>>
    ELSE LET front == Keys(SubSeq(possible_actions, 1, Len(possible_actions) - 1))
             last == possible_actions[Len(possible_actions)]
         IN IF last \in Range(front) THEN front ELSE Append(front, last)

\* the dict trait_weights
TraitWeights(personality, energy, possible_actions) ==
    [action \in Range(possible_actions) |-> Weight(personality, energy, action)]

\* sum(trait_weights.values())
RECURSIVE SumWeights(_, _)
SumWeights(keys, trait_weights) ==
    IF keys = <<>> THEN 0
    ELSE trait_weights[Head(keys)] + SumWeights(Tail(keys), trait_weights)

\* (mutant) the walk stops at the first key whose cumulative weight exceeds choice
RECURSIVE WalkStrict(_, _, _, _, _)
WalkStrict(keys, trait_weights, choice, current_weight, possible_actions) ==
    IF keys = <<>> THEN Range(possible_actions)
    ELSE IF choice < current_weight + trait_weights[Head(keys)] THEN {Head(keys)}
    ELSE WalkStrict(Tail(keys), trait_weights, choice,
                    current_weight + trait_weights[Head(keys)], possible_actions)

\* the second loop of choose_action, with random.choice(possible_actions) after
\* it: the actions the call can return for the draw choice
RECURSIVE Walk(_, _, _, _, _)
Walk(keys, trait_weights, choice, current_weight, possible_actions) ==
    IF keys = <<>> THEN Range(possible_actions)
    ELSE IF choice <= current_weight + trait_weights[Head(keys)] THEN {Head(keys)}
    ELSE Walk(Tail(keys), trait_weights, choice,
              current_weight + trait_weights[Head(keys)], possible_actions)

\* the profiles of the two principals and two profiles the NPC generator returns
Personalities ==
    {<<25, 12, 15, 18, 20, 5, 3, 2, 0, 0>>, <<10, 25, 20, 8, 15, 12, 5, 3, 2, 0>>,
     <<30, 30, 30, 10, 0, 0, 0, 0, 0, 0>>, <<0, 0, 0, 0, 0, 0, 0, 0, 0, 100>>}

\* candidate lists: rest alone, and two lists a get_possible_actions returns,
\* cut short with the order kept: the researcher's in the hospital and the
\* surgeon's in the town center, which names emergency_response twice
CandidateLists ==
    {<<"rest">>,
     <<"rest", "explore", "socialize", "research", "visit_patients">>,
     <<"rest", "explore", "socialize", "emergency_response", "provide_first_aid",
       "emergency_response">>}

\* energies of the character at the call
EnergyInputs == {0, 50, 95, 100}

\* random.uniform(0, total_weight): both ends, and the draws at and next to the
\* cumulative weights
DrawInputs(keys, trait_weights) ==
    LET total == SumWeights(keys, trait_weights)
        cumulative == {SumWeights(SubSeq(keys, 1, i), trait_weights) : i \in 1..Len(keys)}
    IN {d \in 0..total : \E b \in cumulative \cup {1} : d \in {b - 1, b, b + 1}}

ChooseAction ==
    /\ steps < limit
    /\ \E possible_actions \in CandidateLists, energy \in EnergyInputs :
          LET trait_weights == TraitWeights(choose.personality, energy, possible_actions)
              keys == Keys(possible_actions)
          IN \E choice \in DrawInputs(keys, trait_weights) :
                \E action \in Walk(keys, trait_weights, choice, 0, possible_actions) :
                    choose' = [pc |-> "chosen", personality |-> choose.personality,
                               possible_actions |-> possible_actions, energy |-> energy,
                               trait_weights |-> trait_weights,
                               total_weight |-> SumWeights(keys, trait_weights),
                               choice |-> choice, action |-> action,
                               before |-> IF choose.pc = "idle" THEN [pc |-> "idle"]
                                          ELSE [pc |-> "chosen",
                                                possible_actions |-> choose.possible_actions,
                                                energy |-> choose.energy,
                                                trait_weights |-> choose.trait_weights]]
    /\ steps' = steps + 1
    /\ lastOp' = [op |-> "choose_action"]
    /\ UNCHANGED <<world, chars, events, now, manager, create, gen, sim, limit, dominant, ollama>>

ChoiceInit ==
    \E personality \in Personalities :
        /\ world = Constructed.world
        /\ chars = Constructed.chars
        /\ events = <<>>
        /\ now = 0
        /\ manager = NPCManager
        /\ create = [pc |-> "idle"]
        /\ gen = [pc |-> "idle"]
        /\ sim = [pc |-> "ready"]
        /\ choose = [pc |-> "idle", personality |-> personality]
        /\ dominant = [pc |-> "idle"]
        /\ ollama = OllamaClient
        /\ steps = 0
        /\ limit = MaxChoices
        /\ lastOp = [op |-> "init"]

ChoiceSpec == ChoiceInit /\ [][ChooseAction]_vars

----------------------------------------------------------------------------
(* An NPC following its routine: follow_routine called for any hour of     *)
(* the day, on the routines _generate_daily_routine returns and on one a   *)
(* caller assigned, around moves of the NPC.                               *)

MaxRoutineSteps == 2

\* the routines NPC._generate_daily_routine returns for the extreme draws
GeneratedRoutines ==
    {generate_daily_routine(JobOf(Townsman), start_time, work_hours, place) :
        start_time \in randint(6, 9), work_hours \in randint(6, 10),
        place \in {"none", "town_center", "riverside"}}

\* a routine assigned to npc.daily_routine by a caller: two entries of one hour,
\* the second at home, and a place the world does not have
AssignedRoutine ==
    <<[time |-> OClock(12), activity |-> "lunch_break", location |-> "town_center"],
      [time |-> OClock(12), activity |-> "nap", location |-> "home"],
      [time |-> OClock(20), activity |-> "stargazing", location |-> "observatory"]>>

Routines == GeneratedRoutines \cup {AssignedRoutine}

\* current_hour, as world.time.hour gives it
HourInputs == 0..23

FollowRoutine ==
    \E current_hour \in HourInputs :
        /\ steps < limit
        /\ Apply(follow_routine(State, Townsman, current_hour),
                 [op |-> "follow_routine", char |-> Townsman, hour |-> current_hour])

RoutineInit ==
    \E s \in {Constructed, Gathered}, routine \in Routines :
        Starts([s EXCEPT !.chars[Townsman].daily_routine = routine], MaxRoutineSteps)

RoutineNext ==
    \/ FollowRoutine
    \/ MoveCharacter

RoutineSpec == RoutineInit /\ [][RoutineNext]_vars

----------------------------------------------------------------------------
(* The population handed to the world: distribute_npcs_to_world on a world *)
(* whose NPCs were added, around moves of the characters.                  *)

MaxDistSteps == 2

\* the members of the lists NPC._get_preferred_locations returns
PreferredLocations ==
    {"town_center", "riverside", "marina", "research_station", "hospital"}

\* main.py up to the distribution: the principals and the NPCs added
Settled ==
    LET built == [world |-> World, chars |-> [c \in Everyone |-> NewCharacter(c)],
                  events |-> <<>>, now |-> 0]
        principals == add_character(add_character(built, Researcher), Surgeon)
    IN add_character(add_character(principals, Townsman), Neighbor)

DistributeNpcsToWorld ==
    \E place \in [1..2 -> PreferredLocations] :
        /\ steps < limit
        /\ Apply(distribute_npcs_to_world(State, ManagerNpcs, place),
                 [op |-> "distribute_npcs_to_world", npcs |-> ManagerNpcs])

DistInit ==
    /\ world = Settled.world
    /\ chars = Settled.chars
    /\ events = Settled.events
    /\ now = Settled.now
    /\ manager = Staffed
    /\ create = [pc |-> "idle"]
    /\ gen = [pc |-> "idle"]
    /\ sim = [pc |-> "ready"]
    /\ choose = [pc |-> "idle"]
    /\ dominant = [pc |-> "idle"]
    /\ ollama = OllamaClient
    /\ steps = 0
    /\ limit = MaxDistSteps
    /\ lastOp = [op |-> "init"]

DistNext ==
    \/ DistributeNpcsToWorld
    \/ MoveCharacter

DistSpec == DistInit /\ [][DistNext]_vars

----------------------------------------------------------------------------
(* BaseCharacter.get_dominant_traits, called with any top_n on a character *)
(* of any of a set of profiles.                                            *)

MaxTraitCalls == 2

\* the entries of items whose value lies in lo..hi, those of higher value
\* first, those of one value in the order they have in items
RECURSIVE ByValue(_, _, _)
ByValue(items, lo, hi) ==
    IF lo = hi THEN SelectSeq(items, LAMBDA item : item[2] = lo)
    ELSE LET mid == (lo + hi) \div 2
         IN ByValue(items, mid + 1, hi) \o ByValue(items, lo, mid)

\* (mutant) the sort turns the order of equal values around
SortedTraitsReversed(items) ==
    ByValue([i \in 1..Len(items) |-> items[Len(items) + 1 - i]], 0, 100)

\* sorted(trait_dict.items(), key=lambda x: x[1], reverse=True): a stable sort,
\* equal values keep the order of the dict
SortedTraits(items) == ByValue(items, 0, 100)

\* BaseCharacter.get_dominant_traits
get_dominant_traits(personality, top_n) ==
    LET trait_dict == [i \in 1..Len(TraitNames) |-> <<TraitNames[i], personality[i]>>]
        sorted_traits == SortedTraits(trait_dict)
        cut == SubSeq(sorted_traits, 1,
                      IF top_n < Len(sorted_traits) THEN top_n ELSE Len(sorted_traits))
    IN [i \in 1..Len(cut) |-> cut[i][1]]

\* profiles of characters: the two principals', and profiles with equal values
\* at the top, at the cut and everywhere
Profiles ==
    Personalities \cup
    {<<10, 10, 10, 10, 10, 10, 10, 10, 10, 10>>,
     <<0, 20, 5, 20, 5, 20, 5, 20, 5, 0>>,
     <<1, 2, 3, 4, 40, 40, 4, 3, 2, 1>>}

\* top_n: none, the default 3, all ten, and more than there are
TopInputs == 0..11

GetDominantTraits ==
    /\ steps < limit
    /\ \E top_n \in TopInputs :
          dominant' = [pc |-> "returned", personality |-> dominant.personality,
                       top_n |-> top_n,
                       result |-> get_dominant_traits(dominant.personality, top_n),
                       before |-> IF dominant.pc = "idle" THEN [pc |-> "idle"]
                                  ELSE [pc |-> "returned", top_n |-> dominant.top_n,
                                        result |-> dominant.result]]
    /\ steps' = steps + 1
    /\ lastOp' = [op |-> "get_dominant_traits"]
    /\ UNCHANGED <<world, chars, events, now, manager, create, gen, sim, choose, ollama,
                   limit>>

DominantInit ==
    \E personality \in Profiles :
        /\ world = Constructed.world
        /\ chars = Constructed.chars
        /\ events = <<>>
        /\ now = 0
        /\ manager = NPCManager
        /\ create = [pc |-> "idle"]
        /\ gen = [pc |-> "idle"]
        /\ sim = [pc |-> "ready"]
        /\ choose = [pc |-> "idle"]
        /\ dominant = [pc |-> "idle", personality |-> personality]
        /\ ollama = OllamaClient
        /\ steps = 0
        /\ limit = MaxTraitCalls
        /\ lastOp = [op |-> "init"]

DominantSpec == DominantInit /\ [][GetDominantTraits]_vars

----------------------------------------------------------------------------
(* Company: the characters socializing and chatting, around moves, in a    *)
(* world where nobody was moved yet and in one where all are gathered.     *)

MaxSocialSteps == 2

\* the labels of get_possible_actions under which a relationship can be made
SocialLabels(c) ==
    IF c \in {Researcher, Surgeon} THEN {"socialize"}
    ELSE {"socialize", "chat_with_neighbors"}

SocialAction ==
    \E c \in Chars : \E action \in SocialLabels(c) :
        /\ steps < limit
        /\ \E t \in execute_action(State, c, action) :
              Apply(t, [op |-> "execute_action", char |-> c, action |-> action])

SocialInit == \E s \in {Constructed, Gathered} : Starts(s, MaxSocialSteps)

SocialNext ==
    \/ SocialAction
    \/ MoveCharacter

SocialSpec == SocialInit /\ [][SocialNext]_vars

----------------------------------------------------------------------------
(* The researcher at work: her actions in any order, around moves.         *)

MaxResearchSteps == 3

ResearchAction ==
    \E action \in ActionLabels(Researcher) :
        /\ steps < limit
        /\ \E t \in execute_action(State, Researcher, action) :
              Apply(t, [op |-> "execute_action", char |-> Researcher, action |-> action])

ResearchInit == Starts(Constructed, MaxResearchSteps)

ResearchNext ==
    \/ ResearchAction
    \/ MoveCharacter

ResearchSpec == ResearchInit /\ [][ResearchNext]_vars

----------------------------------------------------------------------------
(* The character snapshot of ConversationManager.generate_character_prompt. *)

\* character.memories[-5:], the memories whose contents make the digest
LastFive(memories) ==
    SubSeq(memories, IF Len(memories) > 5 THEN Len(memories) - 4 ELSE 1, Len(memories))

----------------------------------------------------------------------------
(* The occupant lists under everything that moves a character: direct      *)
(* moves, the characters' actions, the NPC's routine and the distribution  *)
(* of the population, in any order.                                        *)

MaxOccupancySteps == 2

OccupancyInit ==
    /\ world = Settled.world
    /\ chars = Settled.chars
    /\ events = Settled.events
    /\ now = Settled.now
    /\ manager = Staffed
    /\ create = [pc |-> "idle"]
    /\ gen = [pc |-> "idle"]
    /\ sim = [pc |-> "ready"]
    /\ choose = [pc |-> "idle"]
    /\ dominant = [pc |-> "idle"]
    /\ ollama = OllamaClient
    /\ steps = 0
    /\ limit = MaxOccupancySteps
    /\ lastOp = [op |-> "init"]

OccupancyNext ==
    \/ MoveCharacter
    \/ ExecuteAction
    \/ FollowRoutine
    \/ DistributeNpcsToWorld

OccupancySpec == OccupancyInit /\ [][OccupancyNext]_vars

----------------------------------------------------------------------------
(* OllamaClient.generate_response: conversations with two characters, the  *)
(* backend answering or raising, from histories empty and nearly full.     *)

MaxTalkCalls == 2

\* the length conversation_history[character_id] is cut to
HistoryLimit == 20

\* (mutant) the history is not cut
Untruncated(history) == history

\* history[-20:] when the history is longer than 20
Truncated(history) ==
    IF Len(history) > HistoryLimit
    THEN SubSeq(history, Len(history) - HistoryLimit + 1, Len(history))
    ELSE history

\* f"{character.name}_{character.job.replace(' ', '_')}" of the two principals
CharacterIds == {"Dr. Marina Depth_Deep_Sea_Researcher", "Dr. Alex Healer_ER_Surgeon"}

\* what the user types
Prompts == {"hello", "what did you find?"}

\* system_prompt: not given, or the character's prompt
SystemPrompts == {"none", "You are Dr. Marina Depth"}

\* response['message']['content'].strip() of the replies client.chat returns
Replies == {"fine", "busy"}

\* the texts of ten earlier exchanges
SeedTexts ==
    <<"q1", "a1", "q2", "a2", "q3", "a3", "q4", "a4", "q5", "a5",
      "q6", "a6", "q7", "a7", "q8", "a8", "q9", "a9", "q10", "a10">>

\* conversation_history after k successful calls for character_id
Conversed(character_id, k) ==
    IF k = 0 THEN <<>>
    ELSE character_id :>
            [i \in 1..(2 * k) |->
                [role |-> IF i % 2 = 1 THEN "user" ELSE "assistant",
                 content |-> SeedTexts[i]]]

\* the stored history of character_id, empty when there is none
StoredHistory(conversation_history, character_id) ==
    IF character_id \in DOMAIN conversation_history
    THEN conversation_history[character_id] ELSE <<>>

\* the messages handed to client.chat
Messages(conversation_history, character_id, prompt, system_prompt) ==
    (IF system_prompt # "none"
     THEN <<[role |-> "system", content |-> system_prompt]>> ELSE <<>>)
    \o StoredHistory(conversation_history, character_id)
    \o <<[role |-> "user", content |-> prompt]>>

\* OllamaClient.generate_response; reply is the text client.chat returns, or
\* "error" when it raises
generate_response(client, prompt, character_id, system_prompt, reply) ==
    LET messages == Messages(client.conversation_history, character_id, prompt,
                             system_prompt)
    IN IF reply = "error"
       THEN [conversation_history |-> client.conversation_history, pc |-> "returned",
             messages |-> messages,
             result |-> [success |-> FALSE, character_id |-> character_id,
                         response |-> "I'm having trouble thinking right now."]]
       ELSE LET extended ==
                    StoredHistory(client.conversation_history, character_id)
                    \o <<[role |-> "user", content |-> prompt],
                         [role |-> "assistant", content |-> reply]>>
            IN [conversation_history |->
                    [id \in (DOMAIN client.conversation_history) \cup {character_id} |->
                        IF id = character_id THEN Truncated(extended)
                        ELSE client.conversation_history[id]],
                pc |-> "returned", messages |-> messages,
                result |-> [success |-> TRUE, character_id |-> character_id,
                            response |-> reply]]

GenerateResponse ==
    /\ steps < limit
    /\ \E character_id \in CharacterIds, prompt \in Prompts,
          system_prompt \in SystemPrompts, reply \in Replies \cup {"error"} :
          /\ ollama' = generate_response(ollama, prompt, character_id, system_prompt,
                                         reply)
          /\ lastOp' = [op |-> "generate_response", character_id |-> character_id,
                        prompt |-> prompt]
    /\ steps' = steps + 1
    /\ UNCHANGED <<world, chars, events, now, manager, create, gen, sim, choose, dominant,
                   limit>>

TalkInit ==
    \E character_id \in CharacterIds, k \in {0, 9, 10} :
        /\ world = Constructed.world
        /\ chars = Constructed.chars
        /\ events = <<>>
        /\ now = 0
        /\ manager = NPCManager
        /\ create = [pc |-> "idle"]
        /\ gen = [pc |-> "idle"]
        /\ sim = [pc |-> "ready"]
        /\ choose = [pc |-> "idle"]
        /\ dominant = [pc |-> "idle"]
        /\ ollama = [conversation_history |-> Conversed(character_id, k), pc |-> "idle"]
        /\ steps = 0
        /\ limit = MaxTalkCalls
        /\ lastOp = [op |-> "init"]

TalkSpec == TalkInit /\ [][GenerateResponse]_vars

----------------------------------------------------------------------------
(* The claims. *)

InAnyList(c) == \E k \in LocationKeys : c \in Range(world.occupants[k])

\* C1: every character added to the world is in the occupant list of exactly
\* one location, once, and that location is the character's own location field.
C1_OccupancyInvariant ==
    \A c \in Chars :
        Added(c) =>
            /\ Cardinality({k \in LocationKeys : c \in Range(world.occupants[k])}) = 1
            /\ Count(world.occupants[chars[c].location], c) = 1

\* C2: a move_character call with a declared key L leaves the character in no
\* occupant list but L's, in L's list, with location = L, and appends exactly
\* one event, of type character_movement, to the event log.
C2_MoveApplied ==
    [][(lastOp'.op = "move_character" /\ lastOp'.key \in LocationKeys) =>
         LET c == lastOp'.char
             L == lastOp'.key
         IN /\ \A k \in LocationKeys \ {L} : c \notin Range(world'.occupants[k])
            /\ c \in Range(world'.occupants[L])
            /\ chars'[c].location = L
            /\ Len(events') = Len(events) + 1
            /\ SubSeq(events', 1, Len(events)) = events
            /\ events'[Len(events')].event_type = "character_movement"]_vars

\* the surgeon, an occupant of the hospital, has just been moved to the riverside
C2_Witness ==
    /\ lastOp.op = "move_character"
    /\ lastOp.char = Surgeon
    /\ lastOp.key = "riverside"
    /\ Len(events) >= 2
    /\ events[Len(events) - 1].event_type = "character_movement"
    /\ events[Len(events) - 1].location = "hospital"
    /\ events[Len(events) - 1].participants = <<Surgeon>>
    /\ events[Len(events)].event_type = "character_movement"
    /\ events[Len(events)].location = "riverside"

\* C3: a move_character call with a key that is no declared location changes
\* no occupant list, no character, not the clock and not the event log.
C3_UnknownKeyNoOp ==
    [][(lastOp'.op = "move_character" /\ lastOp'.key \notin LocationKeys) =>
         UNCHANGED <<world, chars, events, now, dominant, ollama>>]_vars

\* an occupant of a location has just been sent to an undeclared key
C3_Witness ==
    /\ lastOp.op = "move_character"
    /\ lastOp.key \notin LocationKeys
    /\ InAnyList(lastOp.char)
    /\ events # <<>>

\* C4: no character's memory list is ever longer than 50.
C4_MemoryBounded ==
    \A c \in Chars : Len(chars[c].memories) <= MemoryCapacity

\* an action's memory went to a full list, which was sorted and cut
C4_Witness ==
    /\ lastOp.op = "execute_action"
    /\ Len(chars[lastOp.char].memories) = MemoryCapacity
    /\ chars[lastOp.char].memories[1].content # "seeded"

\* the place of entry e in list seq
IndexOf(seq, e) == CHOOSE i \in 1..Len(seq) : seq[i] = e

\* entry a comes before entry b in a list ordered by importance, descending,
\* where entries of equal importance keep the order they have in list all
Precedes(all, a, b) ==
    \/ a.importance > b.importance
    \/ a.importance = b.importance /\ IndexOf(all, a) < IndexOf(all, b)

\* new is old with e appended, less the entry of lowest importance (of several,
\* the last in the list), ordered by importance, descending, entries of equal
\* importance in the order they had
TopByImportance(old, e, new) ==
    LET all == Append(old, e)
        d == CHOOSE d \in 1..Len(all) :
                \A i \in 1..Len(all) :
                    i # d => \/ all[i].importance > all[d].importance
                             \/ all[i].importance = all[d].importance /\ i < d
    IN /\ Len(new) = Len(old)
       /\ Range(new) = Range(all) \ {all[d]}
       /\ \A j \in 1..(Len(new) - 1) : Precedes(all, new[j], new[j + 1])

\* C5: an append to a full memory list (50 entries) leaves the 50 entries of
\* highest importance among the 51, ordered by importance, descending, equal
\* ones in their prior order; of several entries of lowest importance the
\* newest is the one discarded.
C5_EvictionByImportance ==
    [][(lastOp'.op \in {"add_memory", "update_mood"}
          /\ Len(chars[lastOp'.char].memories) = MemoryCapacity) =>
         TopByImportance(chars[lastOp'.char].memories,
                         [content |-> lastOp'.content, timestamp |-> now',
                          importance |-> lastOp'.importance],
                         chars'[lastOp'.char].memories)]_vars

\* the 51st of 51 appends of strictly increasing importance: the first is gone
C5_Witness ==
    /\ lastOp.op = "add_memory"
    /\ LET m == chars[lastOp.char].memories
       IN /\ Len(m) = MemoryCapacity
          /\ {m[i].importance : i \in 1..Len(m)} = (2..MemoryCapacity) \cup {60}

\* C6: every character's energy is an integer from 0 to 100.
C6_EnergyInRange ==
    \A c \in Chars : chars[c].energy \in 0..100

\* one character rested at full energy, another acted with none left
C6_Witness ==
    /\ lastOp.op = "execute_action"
    /\ lastOp.action = "rest"
    /\ chars[lastOp.char].energy = 95
    /\ \E c \in Chars \ {lastOp.char} :
          chars[c].energy = 0 /\ chars[c].current_activity \notin {"idle", "fish"}

\* the sum of the first n entries of t
RECURSIVE SumFirst(_, _)
SumFirst(t, n) == IF n = 0 THEN 0 ELSE SumFirst(t, n - 1) + t[n]

AllInRange(t) == \A i \in 1..Len(t) : t[i] \in 0..100

\* C7: every profile the generator returns has ten values that sum to 100,
\* each from 0 to 100, and passes the validation of PersonalityTraits.
C7_GeneratedProfileValid ==
    gen.pc = "generated" =>
        /\ Len(gen.traits) = 10
        /\ SumFirst(gen.traits, 10) = 100
        /\ AllInRange(gen.traits)
        /\ gen.result.ok
        /\ gen.result.profile = gen.traits

\* a profile is returned after a draw that the remaining budget, below 30,
\* capped and that used the budget up
C7_Witness ==
    /\ gen.pc = "generated"
    /\ \E i \in 1..9 :
          /\ 100 - SumFirst(gen.traits, i - 1) < 30
          /\ gen.traits[i] > 0
          /\ gen.traits[i] = 100 - SumFirst(gen.traits, i - 1)

\* C8 as stated: construction succeeds exactly for values in range that sum
\* to 100; every sum other than 100 is rejected as trait-sum and every value
\* out of range as trait-range; a rejected construction yields no profile.
C8_AsStated ==
    gen.pc = "constructed" =>
        /\ gen.result.ok <=> (AllInRange(gen.values) /\ SumFirst(gen.values, 10) = 100)
        /\ SumFirst(gen.values, 10) # 100 =>
              ~gen.result.ok /\ gen.result.error = "trait-sum"
        /\ ~AllInRange(gen.values) =>
              ~gen.result.ok /\ gen.result.error = "trait-range"
        /\ ~gen.result.ok => "profile" \notin DOMAIN gen.result

\* C8, amended: construction succeeds exactly for values in range that sum to
\* 100; a value out of range is rejected as trait-range, whatever the sum; a
\* sum other than 100 of values all in range is rejected as trait-sum; a
\* rejected construction yields no profile.
C8_ConstructionValidated ==
    gen.pc = "constructed" =>
        /\ gen.result.ok <=> (AllInRange(gen.values) /\ SumFirst(gen.values, 10) = 100)
        /\ gen.result.ok => gen.result.profile = gen.values
        /\ (AllInRange(gen.values) /\ SumFirst(gen.values, 10) # 100) =>
              ~gen.result.ok /\ gen.result.error = "trait-sum"
        /\ ~AllInRange(gen.values) =>
              ~gen.result.ok /\ gen.result.error = "trait-range"
        /\ ~gen.result.ok => "profile" \notin DOMAIN gen.result

\* values in range that sum to 99 have been rejected as trait-sum
C8_Witness ==
    /\ gen.pc = "constructed"
    /\ AllInRange(gen.values)
    /\ SumFirst(gen.values, 10) = 99
    /\ ~gen.result.ok
    /\ gen.result.error = "trait-sum"

\* C9: create_npcs(N) with N the sum of the quota table returns N agents, of
\* each job as many as the table says, with pairwise distinct names.
C9_QuotaMet ==
    (create.pc = "returned" /\ create.count = QuotaTotal) =>
        /\ Len(create.result) = QuotaTotal
        /\ \A j \in Jobs :
              Cardinality({i \in 1..Len(create.result) : create.result[i].job = j})
                  = JobDistribution[j]
        /\ \A i, k \in 1..Len(create.result) :
              i # k => create.result[i].name # create.result[k].name

\* a call with N the sum of the quota table has returned
C9_Witness ==
    /\ create.pc = "returned"
    /\ create.count = QuotaTotal
    /\ Len(create.result) = QuotaTotal

\* C10: between create_npcs calls the agents of the manager's list have
\* pairwise distinct names and the registry has one entry per agent of the
\* list, mapping the agent's name to that agent.
C10_NamesUnique ==
    create.pc \in {"idle", "returned"} =>
        /\ \A i, k \in 1..Len(manager.npcs) :
              i # k => manager.npcs[i].name # manager.npcs[k].name
        /\ DOMAIN manager.npc_database = {manager.npcs[i].name : i \in 1..Len(manager.npcs)}
        /\ Cardinality(DOMAIN manager.npc_database) = Len(manager.npcs)
        /\ \A i \in 1..Len(manager.npcs) :
              manager.npc_database[manager.npcs[i].name] = manager.npcs[i]

\* C11: a create_npcs call with an agent left to name is never drawing from a
\* pool whose every name is used (where no draw can end the redrawing): it
\* names the agent after finitely many redraws or has failed.
C11_NameDrawsBounded ==
    (create.pc = "loop" /\ Len(create.created_npcs) < Len(create.jobs_to_create)) =>
        generate_random_name \ create.used_names # {}

\* the step changed the activity, location, energy, memory or relationships of c
Changed(c) ==
    \/ chars[c].current_activity # sim.before[c].current_activity
    \/ chars[c].location # sim.before[c].location
    \/ chars[c].energy # sim.before[c].energy
    \/ chars[c].memories # sim.before[c].memories
    \/ chars[c].relationships # sim.before[c].relationships

\* C12: one simulation step (World.simulate_step, then simulate_npc_interactions
\* with the sample size) changes every principal and at most as many background
\* agents as the sample size; all other background agents are unchanged.
C12_StepTouchesSample ==
    sim.pc = "done" =>
        /\ \A c \in Range(world.ai_characters) : Changed(c)
        /\ Cardinality({c \in Range(world.npcs) : Changed(c)}) <= ActiveNpcs

C14_ClockNeverBackward ==
    [][/\ world'.time >= world.time
       /\ (lastOp'.op = "update_time" /\ steps' = steps + 1) =>
             /\ world'.time = world.time + lastOp'.hours
             /\ Len(events') = Len(events) + 1
             /\ events'[Len(events')].event_type = "time_update"]_vars

\* the rows the simulate_step appended to the event log
StepEvents == SubSeq(events, sim.start + 1, Len(events))

\* the place of the agent that caused row e in the order of acting: the
\* principals as they were added, then the background agents
ActingRank(e) ==
    LET c == e.participants[1]
        principals == world.ai_characters
    IN IF c \in Range(principals)
       THEN CHOOSE i \in 1..Len(principals) : principals[i] = c
       ELSE Len(principals) + 1

\* the timestamps of the memories c stored during the simulate_step
StepMemories(c) ==
    {chars[c].memories[i].timestamp : i \in 1..Len(chars[c].memories)}
        \ {sim.before[c].memories[i].timestamp : i \in 1..Len(sim.before[c].memories)}

\* C15: of the rows one simulate_step appends to the event log the first is the
\* time_update and the only one; the rows caused by agents follow in the order
\* of acting, principals in the order they were added and background agents
\* after all principals; and every memory a principal stored in the step is
\* older than every memory a background agent stored in it.
C15_StepOrder ==
    sim.pc = "stepped" =>
        /\ world.time = sim.time + 1
        /\ StepEvents # <<>>
        /\ StepEvents[1].event_type = "time_update"
        /\ \A i \in 2..Len(StepEvents) :
              /\ StepEvents[i].event_type # "time_update"
              /\ StepEvents[i].participants # <<>>
              /\ StepEvents[1].timestamp <= StepEvents[i].timestamp
        /\ \A i, j \in 2..Len(StepEvents) :
              i < j => ActingRank(StepEvents[i]) <= ActingRank(StepEvents[j])
        /\ \A p \in Range(world.ai_characters), n \in Range(world.npcs) :
              \A tp \in StepMemories(p), tn \in StepMemories(n) :
                  StepEvents[1].timestamp < tp /\ tp < tn
        /\ \A i, j \in 1..Len(world.ai_characters) :
              i < j => \A ti \in StepMemories(world.ai_characters[i]),
                          tj \in StepMemories(world.ai_characters[j]) : ti < tj

\* a simulate_step in which both principals and a background agent logged an event
C15_Witness ==
    /\ sim.pc = "stepped"
    /\ \E i, j, k \in 2..Len(StepEvents) :
          /\ i < j /\ j < k
          /\ StepEvents[i].participants[1] = Researcher
          /\ StepEvents[j].participants[1] = Surgeon
          /\ StepEvents[k].participants[1] \in Range(world.npcs)

\* C16: of two choose_action calls of one character with the same candidate
\* list, rest among the candidates, the call at the lower energy gives rest
\* the strictly greater weight.
C16_RestWeightMonotone ==
    (/\ choose.pc = "chosen"
     /\ choose.before.pc = "chosen"
     /\ choose.before.possible_actions = choose.possible_actions
     /\ "rest" \in Range(choose.possible_actions)) =>
        /\ choose.energy < choose.before.energy =>
              choose.trait_weights["rest"] > choose.before.trait_weights["rest"]
        /\ choose.energy > choose.before.energy =>
              choose.trait_weights["rest"] < choose.before.trait_weights["rest"]

\* the same candidates weighed at energy 100 and then at energy 95
C16_Witness ==
    /\ choose.pc = "chosen"
    /\ choose.before.pc = "chosen"
    /\ choose.before.possible_actions = choose.possible_actions
    /\ Len(choose.possible_actions) > 1
    /\ "rest" \in Range(choose.possible_actions)
    /\ choose.before.energy = 100
    /\ choose.energy = 95

\* the weight the declared table gives an action, in hundredths
TableWeight(personality, energy, action) ==
    100 + (CASE action \in {"research", "analyze_data", "conduct_research"} ->
                  personality[curiosity] * 2 + personality[analytical] * 2
             [] action \in {"socialize", "visit_patients"} ->
                  personality[social] * 2 + personality[empathy] * 2
             [] action = "rest" -> (100 - energy) * 2
             [] OTHER -> 0)

\* C17: the weight choose_action computes for each candidate is the weight of
\* the declared table: 1, plus (curiosity + analytical) * 0.02 for the
\* investigative actions, (social + empathy) * 0.02 for the social ones,
\* (100 - energy) * 0.02 for rest, and nothing for every other action.
C17_WeightsFromTable ==
    choose.pc = "chosen" =>
        \A action \in Range(choose.possible_actions) :
            choose.trait_weights[action] =
                TableWeight(choose.personality, choose.energy, action)

\* the cumulative weight of the i-th key of trait_weights
CumulativeWeight(i) ==
    SumWeights(SubSeq(Keys(choose.possible_actions), 1, i), choose.trait_weights)

\* C18: choose_action returns one of the candidates; every candidate has a
\* weight of at least 0.1 and is returned for some draw; the action returned
\* for a draw is the first candidate, in iteration order, whose cumulative
\* weight is at least the draw.
C18_ChoiceByCumulativeWeight ==
    choose.pc = "chosen" =>
        LET keys == Keys(choose.possible_actions)
        IN /\ choose.action \in Range(choose.possible_actions)
           /\ \A a \in Range(choose.possible_actions) : choose.trait_weights[a] >= 10
           /\ \A i \in 1..Len(keys) :
                 Walk(keys, choose.trait_weights, CumulativeWeight(i), 0,
                      choose.possible_actions) = {keys[i]}
           /\ \E i \in 1..Len(keys) :
                 /\ keys[i] = choose.action
                 /\ choose.choice <= CumulativeWeight(i)
                 /\ \A j \in 1..(i - 1) : CumulativeWeight(j) < choose.choice

\* a draw that is exactly the cumulative weight of a candidate other than the
\* last one, which is returned, from a list that names a candidate twice
C18_Witness ==
    /\ choose.pc = "chosen"
    /\ Len(Keys(choose.possible_actions)) < Len(choose.possible_actions)
    /\ \E i \in 1..(Len(Keys(choose.possible_actions)) - 1) :
          /\ i > 1
          /\ choose.choice = CumulativeWeight(i)
          /\ choose.action = Keys(choose.possible_actions)[i]

\* C19: right after execute_action(action, world) returns, for every character
\* and every action label, the character's current activity is the label.
C19_ActivityIsLabel ==
    lastOp.op = "execute_action" =>
        chars[lastOp.char].current_activity = lastOp.action

\* the energy the contract gives after one execute_action from energy e
EnergyAfter(action, e) ==
    LET restored == IF action = "rest" THEN (IF e + 20 < 100 THEN e + 20 ELSE 100) ELSE e
    IN IF restored - 5 > 0 THEN restored - 5 ELSE 0

\* C20: every execute_action call, whatever the character and the action,
\* leaves the energy at max(0, e - 5) for an action other than rest and at
\* max(0, min(100, e + 20) - 5) for rest, e being the energy before the call;
\* the cost is taken once, also through the role's own execute_action.
C20_EnergyCostOnce ==
    [][lastOp'.op = "execute_action" /\ steps' = steps + 1 =>
          chars'[lastOp'.char].energy =
              EnergyAfter(lastOp'.action, chars[lastOp'.char].energy)]_vars

\* the surgeon, through ERSurgeon.execute_action, spent the last of the energy
\* on an operation
C20_Witness ==
    /\ lastOp.op = "execute_action"
    /\ lastOp.char = Surgeon
    /\ lastOp.action = "perform_surgery"
    /\ chars[Surgeon].energy = 0

\* C21: the row log_event appends is stamped with the world's clock, World.time,
\* as it is at the call: the last row a step appends carries the clock the
\* world has after the step, whether the step advanced the clock or not.
C21_StampedWithWorldClock ==
    [][Len(events') > Len(events) =>
          events'[Len(events')].timestamp = world'.time]_vars

\* the entries of the routine of c that start at the hour
EntriesAt(c, h) ==
    SelectSeq(chars[c].daily_routine, LAMBDA routine_item : routine_item.time = OClock(h))

\* C22: follow_routine applies the first entry of the routine, in declared
\* order, whose hour is the given hour, and no other: with the place "home"
\* the activity becomes the entry's and the location, the occupant lists and
\* the event log stay as they were; with another place the NPC is moved there
\* through move_character and the activity becomes the entry's; with no entry
\* of the hour nothing changes.
C22_FirstEntryOfTheHour ==
    [][lastOp'.op = "follow_routine" /\ steps' = steps + 1 =>
          LET c == lastOp'.char
              entries == EntriesAt(c, lastOp'.hour)
              after == [world |-> world', chars |-> chars', events |-> events',
                        now |-> now']
          IN IF entries = <<>> THEN after = State
             ELSE IF entries[1].location = "home"
                  THEN after = [State EXCEPT
                                   !.chars[c].current_activity = entries[1].activity]
                  ELSE after = [move_character(State, c, entries[1].location) EXCEPT
                                   !.chars[c].current_activity = entries[1].activity]]_vars

\* of two entries of the hour, the second one at home, the first was applied:
\* the NPC was brought from elsewhere to the place of the first entry
C22_Witness ==
    /\ lastOp.op = "follow_routine"
    /\ Len(EntriesAt(Townsman, lastOp.hour)) = 2
    /\ chars[Townsman].current_activity = "lunch_break"
    /\ chars[Townsman].location = "town_center"
    /\ world.occupants["town_center"] = <<Townsman>>
    /\ events[Len(events)].location = "town_center"

\* the number of places c takes in the occupant lists occ
Places(occ, c) == SumOver([k \in LocationKeys |-> Count(occ[k], c)], LocationKeys)

\* C23: distribute_npcs_to_world moves every NPC of the manager that is at
\* "town_center" through move_character to a declared location and leaves the
\* NPCs at other locations and the principals as they are; it then logs one
\* "population_distribution" event, after the movement events; every NPC it
\* moved is in one occupant list, the one of its location.
C23_DistributionMovesTheDefaulted ==
    [][lastOp'.op = "distribute_npcs_to_world" /\ steps' = steps + 1 =>
          LET npcs == lastOp'.npcs
              moved == SelectSeq(npcs, LAMBDA c : chars[c].location = "town_center")
              logged == SubSeq(events', Len(events) + 1, Len(events'))
          IN /\ Len(logged) = Len(moved) + 1
             /\ \A i \in 1..Len(moved) :
                   /\ logged[i].event_type = "character_movement"
                   /\ logged[i].participants = <<moved[i]>>
                   /\ logged[i].location = chars'[moved[i]].location
                   /\ chars'[moved[i]].location \in LocationKeys
                   /\ Places(world'.occupants, moved[i]) = 1
                   /\ moved[i] \in Range(world'.occupants[chars'[moved[i]].location])
             /\ logged[Len(logged)].event_type = "population_distribution"
             /\ \A c \in Everyone \ Range(moved) :
                   /\ chars'[c] = chars[c]
                   /\ \A k \in LocationKeys :
                         Count(world'.occupants[k], c) = Count(world.occupants[k], c)]_vars

\* one NPC had been moved to the hospital before and stayed there, the other
\* one was brought from the town center to the marina
C23_Witness ==
    /\ lastOp.op = "distribute_npcs_to_world"
    /\ chars[Townsman].location = "hospital"
    /\ world.occupants["hospital"] = <<Townsman>>
    /\ chars[Neighbor].location = "marina"
    /\ world.occupants["marina"] = <<Neighbor>>
    /\ events[Len(events)].event_type = "population_distribution"

\* the place of a trait name in the declaration order
Declared(name) == CHOOSE i \in 1..Len(TraitNames) : TraitNames[i] = name

\* trait a comes before trait b: by the higher value, and by the declaration
\* order between equal values
Before(personality, a, b) ==
    \/ personality[Declared(a)] > personality[Declared(b)]
    \/ /\ personality[Declared(a)] = personality[Declared(b)]
       /\ Declared(a) < Declared(b)

\* C24: get_dominant_traits(n) returns the n trait names of the highest values
\* (all ten when n is more), the higher value first and equal values in the
\* declaration order; a second call with the same n returns the same list, and
\* the character is as it was.
C24_DominantTraitsOrdered ==
    dominant.pc = "returned" =>
        LET result == dominant.result
            p == dominant.personality
        IN /\ Len(result) = IF dominant.top_n < 10 THEN dominant.top_n ELSE 10
           /\ Range(result) \subseteq Range(TraitNames)
           /\ \A i, j \in 1..Len(result) : i < j => Before(p, result[i], result[j])
           /\ \A a \in Range(result), b \in Range(TraitNames) \ Range(result) :
                 Before(p, a, b)
           /\ (dominant.before.pc = "returned" /\ dominant.before.top_n = dominant.top_n)
                 => dominant.before.result = result
           /\ chars = Constructed.chars

\* the default call on a profile whose three highest values are equal, a second
\* time: the three come in declaration order, a fourth equal one is left out
C24_Witness ==
    /\ dominant.pc = "returned"
    /\ dominant.before.pc = "returned"
    /\ dominant.before.top_n = 3
    /\ dominant.top_n = 3
    /\ dominant.personality = <<0, 20, 5, 20, 5, 20, 5, 20, 5, 0>>
    /\ dominant.result = <<"empathy", "creativity", "social">>

\* the names c has a relationship with after the step and had none with before
NewPartners(c) == (DOMAIN chars'[c].relationships) \ (DOMAIN chars[c].relationships)

\* C25: a relationship made by execute_action (socialize, chat_with_neighbors)
\* is with another character, one that is in the occupant list of the actor's
\* location and is located there; when that list holds nobody but the actor,
\* the call makes no relationship, no memory and no event.
C25_PartnerIsCoLocated ==
    [][lastOp'.op = "execute_action" /\ steps' = steps + 1 =>
          LET c == lastOp'.char
              here == world.occupants[chars[c].location]
          IN /\ \A partner \in NewPartners(c) :
                   /\ partner # c
                   /\ partner \in Range(here)
                   /\ chars[partner].location = chars[c].location
             /\ c \notin DOMAIN chars'[c].relationships
             /\ Range(here) \subseteq {c} =>
                   /\ chars'[c].relationships = chars[c].relationships
                   /\ chars'[c].memories = chars[c].memories
                   /\ events' = events]_vars

\* the background agent, gathered with the two principals, chatted and now
\* holds its first relationship, with one of them
C25_Witness ==
    /\ lastOp.op = "execute_action"
    /\ lastOp.action = "chat_with_neighbors"
    /\ chars[Townsman].location = "riverside"
    /\ Len(world.occupants["riverside"]) = 3
    /\ DOMAIN chars[Townsman].relationships = {Surgeon}
    /\ events[Len(events)].event_type = "social_interaction"

\* C29: acting never changes a relationship that exists: after any
\* execute_action the entries the actor held before are what they were, type
\* and strength, and no other character's relationships changed.
C29_RelationshipsKept ==
    [][lastOp'.op = "execute_action" /\ steps' = steps + 1 =>
          LET c == lastOp'.char
          IN /\ \A partner \in DOMAIN chars[c].relationships :
                   /\ partner \in DOMAIN chars'[c].relationships
                   /\ chars'[c].relationships[partner] = chars[c].relationships[partner]
             /\ \A d \in Chars \ {c} :
                   chars'[d].relationships = chars[d].relationships]_vars

\* the background agent chatted with the surgeon, an acquaintance from an
\* earlier socialize, and the entry is still the one made then
C29_Witness ==
    /\ lastOp.op = "execute_action"
    /\ lastOp.char = Townsman
    /\ lastOp.action = "chat_with_neighbors"
    /\ events # <<>>
    /\ events[Len(events)].participants = <<Townsman, Surgeon>>
    /\ DOMAIN chars[Townsman].relationships = {Surgeon}
    /\ chars[Townsman].relationships[Surgeon].type = "acquaintance"
    /\ chars[Townsman].relationships[Surgeon].strength = 30
    /\ DOMAIN chars[Surgeon].relationships = {}

\* the researcher's action whose precondition does not hold in the state
Unmet(action) ==
    \/ action = "analyze_specimens" /\ chars[Researcher].samples_collected = 0
    \/ action = "document_findings" /\ chars[Researcher].discoveries = <<>>

C27_DigestIsMostRecent ==
    lastOp.op \in {"add_memory", "update_mood", "execute_action"} =>
        LET memories == chars[lastOp.char].memories
            digest == LastFive(memories)
        IN /\ \A i, j \in 1..Len(digest) :
                 i < j => digest[i].timestamp < digest[j].timestamp
           /\ \A i \in 1..(Len(memories) - Len(digest)) :
                 memories[i].timestamp < digest[1].timestamp
           /\ (lastOp.op # "execute_action" /\ digest # <<>>) =>
                 digest[Len(digest)].timestamp = now

\* C28: no character is twice in the occupant lists: over all locations, each
\* character takes at most one place, whatever moved it (move_character called
\* directly or by explore, work_at_job, follow_routine or the distribution), a
\* move to the place it is at included.
C28_NoDuplicateOccupants ==
    \A c \in Everyone : Places(world.occupants, c) <= 1

\* the background agent, at the riverside, was moved to the riverside by its
\* routine's work entry and is there once
C28_Witness ==
    /\ lastOp.op = "follow_routine"
    /\ Len(events) >= 2
    /\ events[Len(events) - 1].event_type = "character_movement"
    /\ events[Len(events) - 1].location = "riverside"
    /\ events[Len(events) - 1].participants = <<Townsman>>
    /\ events[Len(events)].event_type = "character_movement"
    /\ events[Len(events)].location = "riverside"
    /\ events[Len(events)].participants = <<Townsman>>
    /\ world.occupants["riverside"] = <<Townsman>>

\* the last n entries of seq, all of them when it has no more than n
LastOf(seq, n) == SubSeq(seq, IF Len(seq) > n THEN Len(seq) - n + 1 ELSE 1, Len(seq))

====
